---- MODULE Spec2Model ----
(***************************************************************************)
(* Model of the alert lifecycle manager, src/src/alerts/alert_manager.py,  *)
(* and of the zone classifier, src/src/classification/zone_classifier.py.  *)
(*                                                                         *)
(* Time is counted in ticks of 1/TicksPerSecond seconds.  time.time() is   *)
(* the variable clock; it never decreases.  Every clock read of a handler  *)
(* is a separate read: the clock may advance between two reads of one      *)
(* call.  Alerts are Python dicts, held by reference: the variable alerts  *)
(* is the heap of alert objects, and active_alerts, alert_history and the  *)
(* values handed to callers hold references (indices into the heap).       *)
(***************************************************************************)
EXTENDS Integers, Sequences, FiniteSets

VARIABLES clock, cooldown_seconds, last_alert_time, alerts, active_alerts,
          alert_history, total_alerts_triggered, alerts_by_level, op, ret

vars == <<clock, cooldown_seconds, last_alert_time, alerts, active_alerts,
          alert_history, total_alerts_triggered, alerts_by_level, op, ret>>

manager == <<cooldown_seconds, last_alert_time, alerts, active_alerts,
             alert_history, total_alerts_triggered, alerts_by_level>>

(***************************************************************************)
(* Bounds of the model.                                                    *)
(***************************************************************************)
MaxTime == 5

MaxAlerts == 2

MaxDrift == 1

MaxCooldown == 2

MaxAge == 1

MaxList == 3

MaxDensity == 6

MaxSpeed == 2

MaxVariance == 2

MaxElevation == 2

MaxZones == 2

TicksPerSecond == 12

Levels == <<"safe", "moderate", "warning", "critical", "emergency">>

LevelSet == {Levels[i] : i \in 1..Len(Levels)}

Zones == {"Z1", "Z2"}

Severities == {30, 70}

LowSeverity == CHOOSE s \in Severities : \A t \in Severities : s <= t

None == [kind |-> "None"]

Range(s) == {s[i] : i \in 1..Len(s)}

(***************************************************************************)
(* dict.get(key, default) and the defaultdict read of d[key] += 1.         *)
(***************************************************************************)
Get(d, key, default) == IF key \in DOMAIN d THEN d[key] ELSE default

Put(d, key, value) ==
    [k \in DOMAIN d \cup {key} |-> IF k = key THEN value ELSE d[k]]

EmptyDict == [k \in {} |-> 0]

(***************************************************************************)
(* _initialize_alert_config: the per-level descriptors.  flash_rate is in  *)
(* Hz, audio durations in milliseconds.                                    *)
(***************************************************************************)
alert_config(level) ==
    CASE level = "safe" ->
           [priority |-> 0,
            visual |-> [color |-> "#00FF00", flash |-> FALSE, flash_rate |-> 0,
                        message |-> "Normal Operations"],
            audio |-> [enabled |-> FALSE, frequency |-> 0, duration |-> 0,
                       beeps |-> 0]]
      [] level = "moderate" ->
           [priority |-> 1,
            visual |-> [color |-> "#7FFF00", flash |-> FALSE, flash_rate |-> 0,
                        message |-> "Increased Density - Monitor"],
            audio |-> [enabled |-> FALSE, frequency |-> 0, duration |-> 0,
                       beeps |-> 0]]
      [] level = "warning" ->
           [priority |-> 2,
            visual |-> [color |-> "#FFFF00", flash |-> TRUE, flash_rate |-> 1,
                        message |-> "HIGH DENSITY WARNING"],
            audio |-> [enabled |-> TRUE, frequency |-> 800, duration |-> 300,
                       beeps |-> 1]]
      [] level = "critical" ->
           [priority |-> 3,
            visual |-> [color |-> "#FF8C00", flash |-> TRUE, flash_rate |-> 2,
                        message |-> "CRITICAL CONGESTION"],
            audio |-> [enabled |-> TRUE, frequency |-> 1000, duration |-> 500,
                       beeps |-> 2]]
      [] level = "emergency" ->
           [priority |-> 4,
            visual |-> [color |-> "#FF0000", flash |-> TRUE, flash_rate |-> 3,
                        message |-> "EMERGENCY - EVACUATE NOW"],
            audio |-> [enabled |-> TRUE, frequency |-> 1200, duration |-> 700,
                       beeps |-> 3]]

(***************************************************************************)
(* The levels trigger_alert accepts, and the f-string key.                 *)
(***************************************************************************)
trigger_levels_wide == {"moderate", "warning", "critical", "emergency"}

trigger_levels == {"warning", "critical", "emergency"}

alert_key(level, zone_id) == level \o "_" \o zone_id

(***************************************************************************)
(* check_cooldown, evaluated with the clock read current_time.             *)
(***************************************************************************)
check_cooldown_strict(alert_key_, current_time) ==
    current_time - Get(last_alert_time, alert_key_, 0) > cooldown_seconds

check_cooldown_any_key(alert_key_, current_time) ==
    /\ current_time - Get(last_alert_time, alert_key_, 0) >= cooldown_seconds
    /\ \A k \in DOMAIN last_alert_time :
          current_time - last_alert_time[k] >= cooldown_seconds

check_cooldown(alert_key_, current_time) ==
    current_time - Get(last_alert_time, alert_key_, 0) >= cooldown_seconds

(***************************************************************************)
(* The alert dict built by trigger_alert.                                  *)
(***************************************************************************)
new_alert_one_based(level, zone_id, severity, timestamp) ==
    [timestamp |-> timestamp,
     level     |-> level,
     zone_id   |-> zone_id,
     severity  |-> severity,
     priority  |-> CHOOSE i \in 1..Len(Levels) : Levels[i] = level,
     visual    |-> alert_config(level).visual,
     audio     |-> alert_config(level).audio,
     alert_key |-> alert_key(level, zone_id)]

new_alert(level, zone_id, severity, timestamp) ==
    [timestamp |-> timestamp,
     level     |-> level,
     zone_id   |-> zone_id,
     severity  |-> severity,
     priority  |-> alert_config(level).priority,
     visual    |-> alert_config(level).visual,
     audio     |-> alert_config(level).audio,
     alert_key |-> alert_key(level, zone_id)]

(***************************************************************************)
(* The value trigger_alert writes to the ledger: its own clock read, the   *)
(* third of the call (t1: check_cooldown, t2: the alert's timestamp).      *)
(***************************************************************************)
ledger_time_stale(t1, t2, t3) == t1

ledger_time(t1, t2, t3) == t3

(***************************************************************************)
(* The clock advances on its own.                                          *)
(***************************************************************************)
Tick ==
    /\ clock < MaxTime
    /\ clock' = clock + 1
    /\ op' = [name |-> "tick"]
    /\ ret' = None
    /\ UNCHANGED manager

(***************************************************************************)
(* trigger_alert(level, zone_id, severity).  t1 is the clock read of       *)
(* check_cooldown, t2 the read for the alert's timestamp, t3 the read      *)
(* for the ledger entry; the call returns at t3.  A call that returns      *)
(* before check_cooldown's read, or right after it, reads no further.      *)
(* The callers' inputs: every level with every zone, the alertable levels  *)
(* with every severity, safe and moderate with the low severity.           *)
(***************************************************************************)
trigger_alert_restarting(level, zone_id, severity, d1, d2) ==
    LET t1 == clock
        t2 == t1 + d1
        t3 == t2 + d2
        key == alert_key(level, zone_id)
        ref == Len(alerts) + 1
    IN  /\ op' = [name |-> "trigger_alert", level |-> level,
                  zone_id |-> zone_id, severity |-> severity]
        /\ IF level \notin trigger_levels
           THEN /\ d1 = 0 /\ d2 = 0
                /\ ret' = None
                /\ UNCHANGED <<clock, manager>>
           ELSE IF ~check_cooldown(key, t1)
           THEN /\ d1 = 0 /\ d2 = 0
                /\ ret' = None
                /\ last_alert_time' = Put(last_alert_time, key, t1)
                /\ UNCHANGED <<clock, cooldown_seconds, alerts,
                               active_alerts, alert_history,
                               total_alerts_triggered, alerts_by_level>>
           ELSE /\ t3 <= MaxTime
                /\ Len(alerts) < MaxAlerts
                /\ clock' = t3
                /\ alerts' = Append(alerts,
                                    new_alert(level, zone_id, severity, t2))
                /\ last_alert_time' = Put(last_alert_time, key,
                                           ledger_time(t1, t2, t3))
                /\ active_alerts' = Append(active_alerts, ref)
                /\ alert_history' = Append(alert_history, ref)
                /\ total_alerts_triggered' = total_alerts_triggered + 1
                /\ alerts_by_level' =
                       Put(alerts_by_level, level,
                           Get(alerts_by_level, level, 0) + 1)
                /\ ret' = [kind |-> "alert", ref |-> ref]
                /\ UNCHANGED cooldown_seconds

trigger_alert(level, zone_id, severity, d1, d2) ==
    LET t1 == clock
        t2 == t1 + d1
        t3 == t2 + d2
        key == alert_key(level, zone_id)
        ref == Len(alerts) + 1
    IN  /\ op' = [name |-> "trigger_alert", level |-> level,
                  zone_id |-> zone_id, severity |-> severity]
        /\ IF level \notin trigger_levels
           THEN /\ d1 = 0 /\ d2 = 0
                /\ ret' = None
                /\ UNCHANGED <<clock, manager>>
           ELSE IF ~check_cooldown(key, t1)
           THEN /\ d1 = 0 /\ d2 = 0
                /\ ret' = None
                /\ UNCHANGED <<clock, manager>>
           ELSE /\ t3 <= MaxTime
                /\ Len(alerts) < MaxAlerts
                /\ clock' = t3
                /\ alerts' = Append(alerts,
                                    new_alert(level, zone_id, severity, t2))
                /\ last_alert_time' = Put(last_alert_time, key,
                                           ledger_time(t1, t2, t3))
                /\ active_alerts' = Append(active_alerts, ref)
                /\ alert_history' = Append(alert_history, ref)
                /\ total_alerts_triggered' = total_alerts_triggered + 1
                /\ alerts_by_level' =
                       Put(alerts_by_level, level,
                           Get(alerts_by_level, level, 0) + 1)
                /\ ret' = [kind |-> "alert", ref |-> ref]
                /\ UNCHANGED cooldown_seconds

TriggerAlert ==
    \E level \in LevelSet, zone_id \in Zones, severity \in Severities,
       d1 \in 0..MaxDrift, d2 \in 0..MaxDrift :
        /\ level \in {"safe", "moderate"} => severity = LowSeverity
        /\ trigger_alert(level, zone_id, severity, d1, d2)

(***************************************************************************)
(* Python compares key tuples lexicographically.                           *)
(***************************************************************************)
TupleLess(a, b) ==
    \E i \in 1..Len(a) :
        /\ a[i] < b[i]
        /\ \A j \in 1..(i - 1) : a[j] = b[j]

(***************************************************************************)
(* list.sort and sorted are stable, also with reverse=True: the element    *)
(* at i comes before the element at j when its key is smaller (greater,    *)
(* when reversed), or when the keys are equal and i < j.  keys[i] is the   *)
(* key tuple of s[i].                                                      *)
(***************************************************************************)
SortStable(s, keys, reverse) ==
    LET n == Len(s)
        before(i, j) == IF reverse THEN TupleLess(keys[j], keys[i])
                                   ELSE TupleLess(keys[i], keys[j])
        rank(i) == 1 + Cardinality({j \in 1..n :
                          \/ before(j, i)
                          \/ ~before(i, j) /\ j < i})
    IN  [p \in 1..n |-> s[CHOOSE i \in 1..n : rank(i) = p]]

(***************************************************************************)
(* The age filter of get_active_alerts and clear_old_alerts.               *)
(***************************************************************************)
within_age(refs, current_time, max_age_seconds) ==
    SelectSeq(refs,
              LAMBDA r : current_time - alerts[r].timestamp <= max_age_seconds)

(***************************************************************************)
(* active.sort(key=priority, reverse=True).                                *)
(***************************************************************************)
sort_by_priority_ascending(refs) ==
    SortStable(refs, [i \in 1..Len(refs) |-> <<alerts[refs[i]].priority>>],
               FALSE)

sort_by_priority(refs) ==
    SortStable(refs, [i \in 1..Len(refs) |-> <<alerts[refs[i]].priority>>],
               TRUE)

(***************************************************************************)
(* get_active_alerts(max_age_seconds): one clock read, a filtered and      *)
(* sorted copy of the list of references.                                  *)
(***************************************************************************)
get_active_alerts_pruning(max_age_seconds) ==
    /\ op' = [name |-> "get_active_alerts", max_age |-> max_age_seconds]
    /\ active_alerts' = within_age(active_alerts, clock, max_age_seconds)
    /\ ret' = [kind |-> "refs", refs |-> sort_by_priority(active_alerts')]
    /\ UNCHANGED <<clock, cooldown_seconds, last_alert_time, alerts,
                   alert_history, total_alerts_triggered, alerts_by_level>>

get_active_alerts(max_age_seconds) ==
    /\ op' = [name |-> "get_active_alerts", max_age |-> max_age_seconds]
    /\ ret' = [kind |-> "refs",
               refs |-> sort_by_priority(
                            within_age(active_alerts, clock, max_age_seconds))]
    /\ UNCHANGED <<clock, manager>>

GetActiveAlerts == \E max_age_seconds \in 0..MaxAge :
                       get_active_alerts(max_age_seconds)

(***************************************************************************)
(* clear_old_alerts(max_age_seconds).                                      *)
(***************************************************************************)
clear_old_alerts_lifting(max_age_seconds) ==
    LET kept == within_age(active_alerts, clock, max_age_seconds)
        live == {alerts[r].alert_key : r \in Range(kept)}
    IN  /\ op' = [name |-> "clear_old_alerts", max_age |-> max_age_seconds]
        /\ active_alerts' = kept
        /\ last_alert_time' =
               [k \in DOMAIN last_alert_time \cap live |-> last_alert_time[k]]
        /\ ret' = None
        /\ UNCHANGED <<clock, cooldown_seconds, alerts, alert_history,
                       total_alerts_triggered, alerts_by_level>>

clear_old_alerts(max_age_seconds) ==
    /\ op' = [name |-> "clear_old_alerts", max_age |-> max_age_seconds]
    /\ active_alerts' = within_age(active_alerts, clock, max_age_seconds)
    /\ ret' = None
    /\ UNCHANGED <<clock, cooldown_seconds, last_alert_time, alerts,
                   alert_history, total_alerts_triggered, alerts_by_level>>

ClearOldAlerts == \E max_age_seconds \in 0..MaxAge :
                      clear_old_alerts(max_age_seconds)

(***************************************************************************)
(* reset_alerts().                                                         *)
(***************************************************************************)
reset_alerts_all ==
    /\ op' = [name |-> "reset_alerts"]
    /\ active_alerts' = <<>>
    /\ alert_history' = <<>>
    /\ last_alert_time' = EmptyDict
    /\ ret' = None
    /\ UNCHANGED <<clock, cooldown_seconds, alerts,
                   total_alerts_triggered, alerts_by_level>>

reset_alerts_keeping_ledger ==
    /\ op' = [name |-> "reset_alerts"]
    /\ active_alerts' = <<>>
    /\ ret' = None
    /\ UNCHANGED <<clock, cooldown_seconds, last_alert_time, alerts,
                   alert_history, total_alerts_triggered, alerts_by_level>>

reset_alerts_with_counters ==
    /\ op' = [name |-> "reset_alerts"]
    /\ active_alerts' = <<>>
    /\ last_alert_time' = EmptyDict
    /\ total_alerts_triggered' = 0
    /\ alerts_by_level' = EmptyDict
    /\ ret' = None
    /\ UNCHANGED <<clock, cooldown_seconds, alerts, alert_history>>

reset_alerts_ledger_only ==
    /\ op' = [name |-> "reset_alerts"]
    /\ last_alert_time' = EmptyDict
    /\ ret' = None
    /\ UNCHANGED <<clock, cooldown_seconds, alerts, active_alerts,
                   alert_history, total_alerts_triggered, alerts_by_level>>

reset_alerts ==
    /\ op' = [name |-> "reset_alerts"]
    /\ active_alerts' = <<>>
    /\ last_alert_time' = EmptyDict
    /\ ret' = None
    /\ UNCHANGED <<clock, cooldown_seconds, alerts, alert_history,
                   total_alerts_triggered, alerts_by_level>>

(***************************************************************************)
(* The alert dicts a list of references stands for.                        *)
(***************************************************************************)
Deref(refs) == [i \in 1..Len(refs) |-> alerts[refs[i]]]

(***************************************************************************)
(* get_priority_alerts(alerts): sorted() with the key                      *)
(* (priority_order.get(level, 99), -severity); tuples compare              *)
(* lexicographically.  sorted() builds a new list: the record gives the    *)
(* returned list and the argument list as it is after the call.            *)
(***************************************************************************)
priority_order(level) ==
    CASE level = "emergency" -> 0
      [] level = "critical"  -> 1
      [] level = "warning"   -> 2
      [] OTHER               -> 99

priority_key_ascending(alert) ==
    <<priority_order(alert.level), alert.severity>>

priority_key(alert) == <<priority_order(alert.level), -alert.severity>>

sorted_alerts(alerts_) ==
    [returned |-> SortStable(alerts_,
                             [i \in 1..Len(alerts_) |->
                                 priority_key(alerts_[i])],
                             FALSE),
     argument |-> alerts_]

get_priority_alerts(alerts_) ==
    /\ op' = [name |-> "get_priority_alerts", alerts |-> alerts_,
              alerts_after |-> sorted_alerts(alerts_).argument]
    /\ ret' = [kind |-> "dicts", dicts |-> sorted_alerts(alerts_).returned]
    /\ UNCHANGED <<clock, manager>>

GetPriorityAlerts == get_priority_alerts(Deref(active_alerts))

(***************************************************************************)
(* generate_alert_summary(alerts): one pass over the list.                 *)
(***************************************************************************)
summary_init(alerts_) ==
    [total_alerts     |-> Len(alerts_),
     by_level         |-> [l \in {"emergency", "critical", "warning"} |-> 0],
     highest_priority |-> None,
     highest_severity |-> 0,
     zones_affected   |-> {}]

summary_step(summary, alert) ==
    LET counted ==
            IF alert.level \in DOMAIN summary.by_level
            THEN [summary EXCEPT !.by_level[alert.level] = @ + 1]
            ELSE summary
        zoned == [counted EXCEPT !.zones_affected = @ \cup {alert.zone_id}]
    IN  IF alert.severity > zoned.highest_severity
        THEN [zoned EXCEPT !.highest_severity = alert.severity,
                           !.highest_priority =
                               [kind |-> "dict", dict |-> alert]]
        ELSE zoned

RECURSIVE summary_loop(_, _)
summary_loop(summary, alerts_) ==
    IF alerts_ = <<>>
    THEN summary
    ELSE summary_loop(summary_step(summary, Head(alerts_)), Tail(alerts_))

alert_summary(alerts_) ==
    LET summary == summary_loop(summary_init(alerts_), alerts_)
    IN  [summary EXCEPT !.zones_affected = Cardinality(@)]

generate_alert_summary(alerts_) ==
    /\ op' = [name |-> "generate_alert_summary", alerts |-> alerts_]
    /\ ret' = [kind |-> "summary", summary |-> alert_summary(alerts_)]
    /\ UNCHANGED <<clock, manager>>

GenerateAlertSummary == generate_alert_summary(Deref(active_alerts))

(***************************************************************************)
(* generate_visual_alert(alert): one clock read; the flash cycle           *)
(* 1/flash_rate seconds is TicksPerSecond \div flash_rate ticks.           *)
(***************************************************************************)
visual_alert(alert, current_time) ==
    LET visual == alert.visual
        elapsed == current_time - alert.timestamp
        flash_cycle == TicksPerSecond \div visual.flash_rate
        flash_on == IF visual.flash
                    THEN 2 * (elapsed % flash_cycle) < flash_cycle
                    ELSE TRUE
    IN  [color    |-> IF flash_on \/ ~visual.flash
                      THEN visual.color ELSE "#FFFFFF",
         flash    |-> visual.flash,
         flash_on |-> flash_on,
         message  |-> visual.message,
         level    |-> alert.level,
         zone_id  |-> alert.zone_id,
         severity |-> alert.severity]

generate_visual_alert(alert) ==
    /\ op' = [name |-> "generate_visual_alert", alert |-> alert]
    /\ ret' = [kind |-> "visual", visual |-> visual_alert(alert, clock)]
    /\ UNCHANGED <<clock, manager>>

GenerateVisualAlert == \E r \in Range(active_alerts) :
                           generate_visual_alert(alerts[r])

(***************************************************************************)
(* generate_audio_alert(alert).                                            *)
(***************************************************************************)
audio_alert_above_warning(alert) ==
    LET audio == alert.audio
    IN  IF ~audio.enabled \/ alert.level = "warning"
        THEN None
        ELSE [kind      |-> "audio",
              frequency |-> audio.frequency,
              duration  |-> audio.duration,
              beeps     |-> audio.beeps,
              level     |-> alert.level]

audio_alert(alert) ==
    LET audio == alert.audio
    IN  IF ~audio.enabled
        THEN None
        ELSE [kind      |-> "audio",
              frequency |-> audio.frequency,
              duration  |-> audio.duration,
              beeps     |-> audio.beeps,
              level     |-> alert.level]

generate_audio_alert(alert) ==
    /\ op' = [name |-> "generate_audio_alert", alert |-> alert]
    /\ ret' = audio_alert(alert)
    /\ UNCHANGED <<clock, manager>>

GenerateAudioAlert == \E r \in Range(active_alerts) :
                          generate_audio_alert(alerts[r])

(***************************************************************************)
(* __init__: a fresh manager.  The clock starts below cooldown_seconds and  *)
(* Tick takes it to every later value before the first call.               *)
(***************************************************************************)
Init ==
    /\ clock = 0
    /\ cooldown_seconds \in 2..MaxCooldown
    /\ last_alert_time = EmptyDict
    /\ alerts = <<>>
    /\ active_alerts = <<>>
    /\ alert_history = <<>>
    /\ total_alerts_triggered = 0
    /\ alerts_by_level = EmptyDict
    /\ op = [name |-> "init"]
    /\ ret = None

Next ==
    \/ Tick
    \/ TriggerAlert
    \/ GetActiveAlerts
    \/ ClearOldAlerts
    \/ reset_alerts
    \/ GetPriorityAlerts
    \/ GenerateAlertSummary
    \/ GenerateVisualAlert
    \/ GenerateAudioAlert

Spec == Init /\ [][Next]_vars

(***************************************************************************)
(* The manager without reset_alerts.                                       *)
(***************************************************************************)
NextNoReset ==
    \/ Tick
    \/ TriggerAlert
    \/ GetActiveAlerts
    \/ ClearOldAlerts
    \/ GetPriorityAlerts
    \/ GenerateAlertSummary
    \/ GenerateVisualAlert
    \/ GenerateAudioAlert

SpecNoReset == Init /\ [][NextNoReset]_vars

(***************************************************************************)
(* get_priority_alerts as a pure function: a fresh manager, called once    *)
(* with any list of at most MaxList alert dicts of any level.              *)
(***************************************************************************)
PriorityDicts ==
    {new_alert(level, zone_id, severity, 0) :
        level \in LevelSet, zone_id \in Zones, severity \in Severities}

PriorityInputs ==
    UNION {[1..n -> PriorityDicts] : n \in 0..MaxList}

InitPriority ==
    /\ clock = 0
    /\ cooldown_seconds \in 2..MaxCooldown
    /\ last_alert_time = EmptyDict
    /\ alerts = <<>>
    /\ active_alerts = <<>>
    /\ alert_history = <<>>
    /\ total_alerts_triggered = 0
    /\ alerts_by_level = EmptyDict
    /\ op \in {[name |-> "call", alerts |-> a] : a \in PriorityInputs}
    /\ ret = None

NextPriority == op.name = "call" /\ get_priority_alerts(op.alerts)

SpecPriority == InitPriority /\ [][NextPriority]_vars

(***************************************************************************)
(* generate_alert_summary as a pure function: a fresh manager, called once *)
(* with any list of at most MaxList alert dicts of any level.              *)
(***************************************************************************)
NextSummary == op.name = "call" /\ generate_alert_summary(op.alerts)

SpecSummary == InitPriority /\ [][NextSummary]_vars

(***************************************************************************)
(* A caller of the manager keeps what trigger_alert or get_active_alerts   *)
(* returned and assigns to a field of it: alert['severity'] = severity.    *)
(* trigger_alert returns the dict object it appended to both lists, and    *)
(* get_active_alerts a new list of the dict objects of active_alerts, so   *)
(* the assignment goes to the object the reference leads to.               *)
(***************************************************************************)
returned_refs ==
    IF ret = None THEN {}
    ELSE IF ret.kind = "alert" THEN {ret.ref}
    ELSE IF ret.kind = "refs" THEN Range(ret.refs)
    ELSE {}

caller_sets_severity(ref, severity) ==
    /\ alerts[ref].severity # severity
    /\ alerts' = [alerts EXCEPT ![ref].severity = severity]
    /\ op' = [name |-> "caller_sets_severity", ref |-> ref,
              severity |-> severity]
    /\ UNCHANGED <<clock, cooldown_seconds, last_alert_time, active_alerts,
                   alert_history, total_alerts_triggered, alerts_by_level,
                   ret>>

CallerSetsSeverity ==
    \E ref \in returned_refs, severity \in Severities :
        caller_sets_severity(ref, severity)

NextCaller ==
    \/ Tick
    \/ TriggerAlert
    \/ GetActiveAlerts
    \/ CallerSetsSeverity

SpecCaller == Init /\ [][NextCaller]_vars

(***************************************************************************)
(* The zone classifier, src/src/classification/zone_classifier.py.         *)
(*                                                                         *)
(* A classifier is built from a configuration document; the document is an *)
(* input.  Densities, speeds and variances are whole numbers of a unit;    *)
(* the weights are in percent.  A pending call carries in op the           *)
(* classifier object it is made on (its configuration and its              *)
(* classification_history) and its arguments.                              *)
(***************************************************************************)
level_order == <<"safe", "moderate", "warning", "critical", "emergency">>

(***************************************************************************)
(* classification_thresholds: a dict in the order of the document, one     *)
(* entry per level.  The tables drawn here have five bands that cover the  *)
(* densities from 0 to the last cut without gap or overlap.                *)
(***************************************************************************)
requires_action_of(level) == level \in {"warning", "critical", "emergency"}

band(level, density_min, density_max) ==
    [level |-> level, density_min |-> density_min,
     density_max |-> density_max,
     requires_action |-> requires_action_of(level)]

Cuts ==
    {c \in [1..5 -> 1..MaxDensity] : \A i \in 1..4 : c[i] < c[i + 1]}

BandTables ==
    {[i \in 1..5 |-> band(level_order[i],
                          IF i = 1 THEN 0 ELSE c[i - 1], c[i])] : c \in Cuts}

Densities == -1..(MaxDensity + 1)

(***************************************************************************)
(* _classify_by_density: the first entry whose band holds the density,     *)
(* 'emergency' when no entry does.                                         *)
(***************************************************************************)
classify_by_density_closed(thresholds, density) ==
    LET matching == {i \in 1..Len(thresholds) :
                        /\ thresholds[i].density_min <= density
                        /\ density <= thresholds[i].density_max}
    IN  IF matching = {}
        THEN "emergency"
        ELSE thresholds[CHOOSE i \in matching :
                            \A j \in matching : i <= j].level

classify_by_density(thresholds, density) ==
    LET matching == {i \in 1..Len(thresholds) :
                        /\ thresholds[i].density_min <= density
                        /\ density < thresholds[i].density_max}
    IN  IF matching = {}
        THEN "emergency"
        ELSE thresholds[CHOOSE i \in matching :
                            \A j \in matching : i <= j].level

call_classify_by_density(thresholds, density) ==
    /\ op' = [name |-> "_classify_by_density", thresholds |-> thresholds,
              density |-> density]
    /\ ret' = [kind |-> "level",
               level |-> classify_by_density(thresholds, density)]
    /\ UNCHANGED <<clock, manager>>

InitDensity ==
    /\ clock = 0
    /\ cooldown_seconds \in 2..MaxCooldown
    /\ last_alert_time = EmptyDict
    /\ alerts = <<>>
    /\ active_alerts = <<>>
    /\ alert_history = <<>>
    /\ total_alerts_triggered = 0
    /\ alerts_by_level = EmptyDict
    /\ op \in {[name |-> "call", thresholds |-> t, density |-> d] :
                 t \in BandTables, d \in Densities}
    /\ ret = None

NextDensity ==
    op.name = "call" /\ call_classify_by_density(op.thresholds, op.density)

SpecDensity == InitDensity /\ [][NextDensity]_vars

(***************************************************************************)
(* elevation_rules of the configuration document.                          *)
(***************************************************************************)
Speeds == 0..MaxSpeed

Variances == 0..MaxVariance

ElevationRules ==
    {[panic_detection |->
          [enabled |-> pe, speed_threshold |-> ps,
           variance_threshold |-> pv, elevation_amount |-> k],
      orderly_evacuation |->
          [enabled |-> oe, speed_threshold |-> os,
           variance_threshold |-> ov]] :
        pe \in BOOLEAN, ps \in 1..MaxSpeed, pv \in 0..(MaxVariance - 1),
        k \in 0..MaxElevation,
        oe \in BOOLEAN, os \in 0..(MaxSpeed - 1), ov \in 1..MaxVariance}

(***************************************************************************)
(* An Optional[str] reason is None or Str(text).                           *)
(***************************************************************************)
Str(text) == [kind |-> "str", value |-> text]

PanicReason == Str("Panic indicators detected (slow movement + chaos)")

OrderlyReason == Str("Orderly evacuation detected")

(***************************************************************************)
(* list.index(x): the 0-based position of the first x.                     *)
(***************************************************************************)
list_index(list, x) ==
    (CHOOSE i \in 1..Len(list) :
        list[i] = x /\ \A j \in 1..(i - 1) : list[j] # x) - 1

(***************************************************************************)
(* _elevate_level: list.index, min with the last index, list indexing (a   *)
(* negative index counts from the end of the list).                        *)
(***************************************************************************)
elevate_level_wrapping(current_level, elevation_amount) ==
    IF current_level \notin Range(level_order)
    THEN current_level
    ELSE LET current_index == list_index(level_order, current_level)
             new_index == (current_index + elevation_amount)
                              % Len(level_order)
         IN  level_order[new_index + 1]

elevate_level_single(current_level, elevation_amount) ==
    IF current_level \notin Range(level_order)
    THEN current_level
    ELSE LET current_index == list_index(level_order, current_level)
             new_index == IF current_index + 1 < Len(level_order) - 1
                          THEN current_index + 1
                          ELSE Len(level_order) - 1
         IN  level_order[new_index + 1]

elevate_level_lowering(current_level, elevation_amount) ==
    IF current_level \notin Range(level_order)
    THEN current_level
    ELSE LET current_index == list_index(level_order, current_level)
             new_index == IF current_index - elevation_amount > 0
                          THEN current_index - elevation_amount ELSE 0
         IN  level_order[new_index + 1]

elevate_level(current_level, elevation_amount) ==
    IF current_level \notin Range(level_order)
    THEN current_level
    ELSE LET current_index == list_index(level_order, current_level)
             new_index == IF current_index + elevation_amount
                                 < Len(level_order) - 1
                          THEN current_index + elevation_amount
                          ELSE Len(level_order) - 1
         IN  IF new_index >= 0
             THEN level_order[new_index + 1]
             ELSE level_order[Len(level_order) + new_index + 1]

(***************************************************************************)
(* _adjust_by_movement: (adjusted_level, reason).                          *)
(***************************************************************************)
adjust_by_movement_silent(rules, base_level, speed, variance) ==
    LET panic == rules.panic_detection
        orderly == rules.orderly_evacuation
        elevated_level == elevate_level(base_level, panic.elevation_amount)
    IN  IF /\ panic.enabled
           /\ speed < panic.speed_threshold
           /\ variance > panic.variance_threshold
           /\ elevated_level # base_level
        THEN [level |-> elevated_level, reason |-> PanicReason]
        ELSE [level |-> base_level, reason |-> None]

adjust_by_movement(rules, base_level, speed, variance) ==
    LET panic == rules.panic_detection
        orderly == rules.orderly_evacuation
        elevated_level == elevate_level(base_level, panic.elevation_amount)
    IN  IF /\ panic.enabled
           /\ speed < panic.speed_threshold
           /\ variance > panic.variance_threshold
           /\ elevated_level # base_level
        THEN [level |-> elevated_level, reason |-> PanicReason]
        ELSE IF /\ orderly.enabled
                /\ speed > orderly.speed_threshold
                /\ variance < orderly.variance_threshold
        THEN [level |-> base_level, reason |-> OrderlyReason]
        ELSE [level |-> base_level, reason |-> None]

call_adjust_by_movement(rules, base_level, speed, variance) ==
    /\ op' = [name |-> "_adjust_by_movement", rules |-> rules,
              base_level |-> base_level, speed |-> speed,
              variance |-> variance]
    /\ ret' = [kind |-> "adjusted",
               adjusted |-> adjust_by_movement(rules, base_level, speed,
                                               variance)]
    /\ UNCHANGED <<clock, manager>>

InitMovement ==
    /\ clock = 0
    /\ cooldown_seconds \in 2..MaxCooldown
    /\ last_alert_time = EmptyDict
    /\ alerts = <<>>
    /\ active_alerts = <<>>
    /\ alert_history = <<>>
    /\ total_alerts_triggered = 0
    /\ alerts_by_level = EmptyDict
    /\ op \in {[name |-> "call", rules |-> r, base_level |-> l,
                 speed |-> s, variance |-> v] :
                 r \in ElevationRules, l \in Range(level_order),
                 s \in Speeds, v \in Variances}
    /\ ret = None

NextMovement ==
    /\ op.name = "call"
    /\ call_adjust_by_movement(op.rules, op.base_level, op.speed,
                               op.variance)

SpecMovement == InitMovement /\ [][NextMovement]_vars

(***************************************************************************)
(* The settings _calculate_severity_score reads: absolute_max_density of   *)
(* capacity_settings, the 'fast' speed and the 'panic' variance of         *)
(* movement_thresholds, and severity_weights (in percent).                 *)
(***************************************************************************)
SeveritySettings ==
    {[absolute_max_density |-> m, fast |-> 1, panic |-> 1,
      density_weight |-> 50, speed_weight |-> 30, variance_weight |-> 20] :
        m \in {MaxDensity - 3, MaxDensity + 1}}

Configs ==
    {[classification_thresholds |-> t, elevation_rules |-> r,
      severity |-> w] :
        t \in BandTables, r \in ElevationRules, w \in SeveritySettings}

Min(a, b) == IF a <= b THEN a ELSE b

(***************************************************************************)
(* Scores are fractions [num, den] with den > 0, on the scale 0 to 100.    *)
(* clamp is max(0, min(100, severity)); round2 is round(x, 2) of a         *)
(* fraction that is not negative, in hundredths, a tie going to the even   *)
(* neighbour.                                                              *)
(***************************************************************************)
clamp(x) ==
    IF x.num < 0 THEN [num |-> 0, den |-> 1]
    ELSE IF x.num > 100 * x.den THEN [num |-> 100, den |-> 1]
    ELSE x

round2(x) ==
    LET q == (100 * x.num) \div x.den
        r == (100 * x.num) % x.den
    IN  IF 2 * r < x.den THEN q
        ELSE IF 2 * r > x.den THEN q + 1
        ELSE IF q % 2 = 0 THEN q ELSE q + 1

(***************************************************************************)
(* An Optional[float] argument is None or Float(n).                        *)
(***************************************************************************)
Float(n) == [kind |-> "float", value |-> n]

Optional(values) == {None} \cup {Float(n) : n \in values}

movement_supplied(speed, variance) == speed # None /\ variance # None

(***************************************************************************)
(* _calculate_severity_score.                                              *)
(***************************************************************************)
density_score_inverted(w, density) ==
    [num |-> 100 * (w.absolute_max_density
                      - Min(density, w.absolute_max_density)),
     den |-> w.absolute_max_density]

density_score(w, density) ==
    [num |-> 100 * Min(density, w.absolute_max_density),
     den |-> w.absolute_max_density]

combined_score(w, density, speed, variance) ==
    LET d == Min(density, w.absolute_max_density)
        s == w.fast - Min(speed, w.fast)
        v == Min(variance, w.panic)
    IN  [num |-> w.density_weight * d * w.fast * w.panic
                   + w.speed_weight * s * w.absolute_max_density * w.panic
                   + w.variance_weight * v * w.absolute_max_density * w.fast,
         den |-> w.absolute_max_density * w.fast * w.panic]

calculate_severity_score_weighted(w, density, speed, variance) ==
    clamp(IF movement_supplied(speed, variance)
          THEN combined_score(w, density, speed.value, variance.value)
          ELSE [num |-> w.density_weight * density_score(w, density).num,
                den |-> 100 * density_score(w, density).den])

calculate_severity_score(w, density, speed, variance) ==
    clamp(IF movement_supplied(speed, variance)
          THEN combined_score(w, density, speed.value, variance.value)
          ELSE density_score(w, density))

call_calculate_severity_score(w, density, speed, variance) ==
    /\ op' = [name |-> "_calculate_severity_score", severity |-> w,
              density |-> density, speed |-> speed, variance |-> variance]
    /\ ret' = [kind |-> "score",
               score |-> calculate_severity_score(w, density, speed,
                                                  variance)]
    /\ UNCHANGED <<clock, manager>>

InitSeverity ==
    /\ clock = 0
    /\ cooldown_seconds \in 2..MaxCooldown
    /\ last_alert_time = EmptyDict
    /\ alerts = <<>>
    /\ active_alerts = <<>>
    /\ alert_history = <<>>
    /\ total_alerts_triggered = 0
    /\ alerts_by_level = EmptyDict
    /\ op \in {[name |-> "call", severity |-> w, density |-> d,
                 speed |-> s, variance |-> v] :
                 w \in SeveritySettings, d \in Densities,
                 s \in Optional(Speeds), v \in Optional(Variances)}
    /\ ret = None

NextSeverity ==
    /\ op.name = "call"
    /\ call_calculate_severity_score(op.severity, op.density, op.speed,
                                     op.variance)

SpecSeverity == InitSeverity /\ [][NextSeverity]_vars

(***************************************************************************)
(* classify_zone: the record returned (without the display fields, which   *)
(* are copied from the entry of the adjusted level as requires_action is), *)
(* appended to classification_history.                                     *)
(***************************************************************************)
level_info(thresholds, level) ==
    thresholds[CHOOSE i \in 1..Len(thresholds) : thresholds[i].level = level]

classification(config, density, speed, variance, zone_id) ==
    LET base_level ==
            classify_by_density(config.classification_thresholds, density)
        severity_score ==
            calculate_severity_score(config.severity, density, speed,
                                     variance)
        adjusted ==
            IF movement_supplied(speed, variance)
            THEN adjust_by_movement(config.elevation_rules, base_level,
                                    speed.value, variance.value)
            ELSE [level |-> base_level, reason |-> None]
    IN  [zone_id          |-> zone_id,
         level            |-> adjusted.level,
         base_level       |-> base_level,
         severity_score   |-> round2(severity_score),
         requires_action  |->
             level_info(config.classification_thresholds,
                        adjusted.level).requires_action,
         density          |-> density,
         speed            |-> speed,
         variance         |-> variance,
         elevated         |-> adjusted.level # base_level,
         elevation_reason |-> adjusted.reason]

classify_zone(classifier, density, speed, variance, zone_id) ==
    LET result == classification(classifier.config, density, speed,
                                 variance, zone_id)
    IN  /\ op' = [name |-> "classify_zone",
                  classifier |->
                      [classifier EXCEPT !.classification_history =
                                             Append(@, result)],
                  density |-> density, speed |-> speed,
                  variance |-> variance, zone_id |-> zone_id]
        /\ ret' = [kind |-> "classification", result |-> result]
        /\ UNCHANGED <<clock, manager>>

InitClassify ==
    /\ clock = 0
    /\ cooldown_seconds \in 2..MaxCooldown
    /\ last_alert_time = EmptyDict
    /\ alerts = <<>>
    /\ active_alerts = <<>>
    /\ alert_history = <<>>
    /\ total_alerts_triggered = 0
    /\ alerts_by_level = EmptyDict
    /\ op \in {[name |-> "call",
                 classifier |-> [config |-> c,
                                 classification_history |-> <<>>],
                 density |-> d, speed |-> s, variance |-> v,
                 zone_id |-> "Z1"] :
                 c \in Configs, d \in Densities,
                 s \in Optional(Speeds), v \in Optional(Variances)}
    /\ ret = None

NextClassify ==
    /\ op.name = "call"
    /\ classify_zone(op.classifier, op.density, op.speed, op.variance,
                     op.zone_id)

SpecClassify == InitClassify /\ [][NextClassify]_vars

(***************************************************************************)
(* classify_all_zones and get_classification_summary.  A pandas DataFrame  *)
(* is its set of columns and its sequence of rows: pd.DataFrame(results)   *)
(* takes its columns from the keys of the dicts of results, so of an empty *)
(* list it has no column; frame[column] of a column the frame does not     *)
(* have raises KeyError; the mean and the max of an empty column are NaN,  *)
(* the sum of an empty column is 0.  The rows are kept without the display *)
(* field color.                                                            *)
(***************************************************************************)
result_columns ==
    {"zone_id", "x", "y", "level", "base_level", "color", "severity",
     "density", "speed", "variance", "requires_action", "elevated",
     "elevation_reason"}

DataFrame(results) ==
    [columns |-> IF results = <<>> THEN {} ELSE result_columns,
     rows |-> results]

zone_result(config, zone) ==
    LET c == classification(config, zone.density, zone.movement_speed,
                            zone.direction_variance, zone.zone_id)
    IN  [zone_id          |-> c.zone_id,
         x                |-> zone.x_coord,
         y                |-> zone.y_coord,
         level            |-> c.level,
         base_level       |-> c.base_level,
         severity         |-> c.severity_score,
         density          |-> c.density,
         speed            |-> c.speed,
         variance         |-> c.variance,
         requires_action  |-> c.requires_action,
         elevated         |-> c.elevated,
         elevation_reason |-> c.elevation_reason]

classify_all_zones(classifier, frame_data) ==
    LET classifications ==
            [i \in 1..Len(frame_data) |->
                classification(classifier.config, frame_data[i].density,
                               frame_data[i].movement_speed,
                               frame_data[i].direction_variance,
                               frame_data[i].zone_id)]
        results == [i \in 1..Len(frame_data) |->
                       zone_result(classifier.config, frame_data[i])]
    IN  /\ op' = [name |-> "classify_all_zones",
                  classifier |->
                      [classifier EXCEPT !.classification_history =
                                             @ \o classifications],
                  frame_data |-> frame_data]
        /\ ret' = [kind |-> "frame", frame |-> DataFrame(results)]
        /\ UNCHANGED <<clock, manager>>

NaN == [kind |-> "nan"]

RECURSIVE column_sum(_)
column_sum(column) ==
    IF column = <<>> THEN 0 ELSE Head(column) + column_sum(Tail(column))

column_mean(column) ==
    IF column = <<>>
    THEN NaN
    ELSE [kind |-> "fraction", num |-> column_sum(column),
          den |-> Len(column)]

column_max(column) ==
    IF column = <<>>
    THEN NaN
    ELSE Float(CHOOSE m \in Range(column) : \A n \in Range(column) : n <= m)

classification_summary(classified_zones) ==
    LET rows == classified_zones.rows
        total_zones == Len(rows)
        severity == [i \in 1..total_zones |-> rows[i].severity]
        count(level) ==
            Cardinality({i \in 1..total_zones : rows[i].level = level})
    IN  IF "severity" \notin classified_zones.columns
        THEN [kind |-> "raise", error |-> "KeyError", key |-> "severity"]
        ELSE [kind |-> "summary",
              total_zones |-> total_zones,
              level_counts |->
                  [level \in Range(level_order) |-> count(level)],
              level_percentages |->
                  [level \in Range(level_order) |->
                      IF total_zones > 0
                      THEN [kind |-> "fraction", num |-> count(level) * 100,
                            den |-> total_zones]
                      ELSE Float(0)],
              average_severity |-> column_mean(severity),
              max_severity |-> column_max(severity),
              zones_requiring_action |->
                  Cardinality({i \in 1..total_zones :
                                  rows[i].requires_action}),
              elevated_zones |->
                  Cardinality({i \in 1..total_zones : rows[i].elevated})]

get_classification_summary(classifier, classified_zones) ==
    /\ op' = [name |-> "get_classification_summary",
              classifier |-> classifier,
              classified_zones |-> classified_zones]
    /\ ret' = classification_summary(classified_zones)
    /\ UNCHANGED <<clock, manager>>

(***************************************************************************)
(* A batch: a classifier of one of the configurations whose panic and      *)
(* orderly thresholds do not overlap, a frame of at most MaxZones zones,   *)
(* each with no movement cell or with the slowest speed and the largest    *)
(* variance; classify_all_zones, then get_classification_summary of what   *)
(* it returned.                                                            *)
(***************************************************************************)
BatchConfigs ==
    {c \in Configs :
        /\ c.elevation_rules.panic_detection.enabled
        /\ c.elevation_rules.panic_detection.speed_threshold = 1
        /\ c.elevation_rules.panic_detection.variance_threshold
             = MaxVariance - 1
        /\ c.elevation_rules.orderly_evacuation.enabled
        /\ c.elevation_rules.orderly_evacuation.speed_threshold
             = MaxSpeed - 1
        /\ c.elevation_rules.orderly_evacuation.variance_threshold = 1}

ZoneRows ==
    {[zone_id |-> "Z1", x_coord |-> 0, y_coord |-> 0, density |-> d,
      movement_speed |-> m[1], direction_variance |-> m[2]] :
        d \in Densities,
        m \in {<<None, None>>, <<Float(0), Float(MaxVariance)>>}}

Frames == UNION {[1..n -> ZoneRows] : n \in 0..MaxZones}

InitBatch ==
    /\ clock = 0
    /\ cooldown_seconds \in 2..MaxCooldown
    /\ last_alert_time = EmptyDict
    /\ alerts = <<>>
    /\ active_alerts = <<>>
    /\ alert_history = <<>>
    /\ total_alerts_triggered = 0
    /\ alerts_by_level = EmptyDict
    /\ op \in {[name |-> "call",
                 classifier |-> [config |-> c,
                                 classification_history |-> <<>>],
                 frame_data |-> f] :
                 c \in BatchConfigs, f \in Frames}
    /\ ret = None

ClassifyAllZones ==
    /\ op.name = "call"
    /\ classify_all_zones(op.classifier, op.frame_data)

GetClassificationSummary ==
    /\ op.name = "classify_all_zones"
    /\ get_classification_summary(op.classifier, ret.frame)

NextBatch ==
    \/ ClassifyAllZones
    \/ GetClassificationSummary

SpecBatch == InitBatch /\ [][NextBatch]_vars

(***************************************************************************)
(* ZoneClassifier(config_path): _load_config raises FileNotFoundError when *)
(* there is no file (the document None), __init__ then reads four keys of  *)
(* the document, a missing one raising KeyError.  Nothing else of the      *)
(* document is looked at.  The documents drawn: every band table, whole,   *)
(* with the entry of one level left out, or with a gap of one unit below   *)
(* one band; severity_weights whole or with one weight left out; the       *)
(* document whole or with one of the four keys left out.                   *)
(***************************************************************************)
Without(f, key) == [k \in DOMAIN f \ {key} |-> f[k]]

WithoutEntry(table, i) ==
    [j \in 1..(Len(table) - 1) |-> IF j < i THEN table[j] ELSE table[j + 1]]

WithGapBelow(table, i) ==
    [j \in 1..Len(table) |->
        IF j < i THEN table[j]
        ELSE [table[j] EXCEPT !.density_min = @ + 1, !.density_max = @ + 1]]

DocumentTables ==
    BandTables
      \cup {WithoutEntry(t, i) : t \in BandTables, i \in 1..5}
      \cup {WithGapBelow(t, i) : t \in BandTables, i \in 2..5}

severity_weights_whole ==
    [density_weight |-> 50, speed_weight |-> 30, variance_weight |-> 20]

DocumentWeights ==
    {severity_weights_whole}
      \cup {Without(severity_weights_whole, k) :
               k \in DOMAIN severity_weights_whole}

init_keys ==
    {"classification_thresholds", "movement_thresholds", "severity_weights",
     "elevation_rules"}

WholeDocuments ==
    {[classification_thresholds |-> t,
      movement_thresholds |-> [speed |-> [fast |-> 1],
                               direction_variance |-> [panic |-> 1]],
      severity_weights |-> w,
      elevation_rules |->
          [panic_detection |->
               [enabled |-> TRUE, speed_threshold |-> 1,
                variance_threshold |-> 1, elevation_amount |-> 1],
           orderly_evacuation |->
               [enabled |-> TRUE, speed_threshold |-> 1,
                variance_threshold |-> 1]],
      capacity_settings |-> [absolute_max_density |-> MaxDensity + 1]] :
        t \in DocumentTables, w \in DocumentWeights}

Documents ==
    WholeDocuments
      \cup {Without(doc, k) : doc \in WholeDocuments, k \in init_keys}

new_classifier(document) ==
    IF document = None
    THEN [kind |-> "raise", error |-> "FileNotFoundError"]
    ELSE IF init_keys \ DOMAIN document # {}
    THEN [kind |-> "raise", error |-> "KeyError"]
    ELSE [kind |-> "classifier",
          config |-> document,
          thresholds |-> document.classification_thresholds,
          movement_thresholds |-> document.movement_thresholds,
          severity_weights |-> document.severity_weights,
          elevation_rules |-> document.elevation_rules,
          level_order |-> level_order,
          classification_history |-> <<>>]

ZoneClassifier(document, density) ==
    /\ op' = [name |-> "__init__", document |-> document,
              density |-> density]
    /\ ret' = new_classifier(document)
    /\ UNCHANGED <<clock, manager>>

InitConstruct ==
    /\ clock = 0
    /\ cooldown_seconds \in 2..MaxCooldown
    /\ last_alert_time = EmptyDict
    /\ alerts = <<>>
    /\ active_alerts = <<>>
    /\ alert_history = <<>>
    /\ total_alerts_triggered = 0
    /\ alerts_by_level = EmptyDict
    /\ op \in {[name |-> "call", document |-> doc, density |-> d] :
                 doc \in Documents \cup {None}, d \in Densities}
    /\ ret = None

Construct ==
    /\ op.name = "call"
    /\ ZoneClassifier(op.document, op.density)

ClassifyByDensityAfterConstruct ==
    /\ op.name = "__init__"
    /\ ret.kind = "classifier"
    /\ op' = [name |-> "_classify_by_density", classifier |-> ret,
              thresholds |-> ret.thresholds, density |-> op.density]
    /\ ret' = [kind |-> "level",
               level |-> classify_by_density(ret.thresholds, op.density)]
    /\ UNCHANGED <<clock, manager>>

NextConstruct ==
    \/ Construct
    \/ ClassifyByDensityAfterConstruct

SpecConstruct == InitConstruct /\ [][NextConstruct]_vars

(***************************************************************************)
(* Vocabulary of the properties.                                           *)
(***************************************************************************)
Alertable == {"warning", "critical", "emergency"}

IsPrefix(s, t) ==
    /\ Len(s) <= Len(t)
    /\ \A i \in 1..Len(s) : s[i] = t[i]

Pos(s, x) == CHOOSE i \in 1..Len(s) : s[i] = x

Count(s, x) == Cardinality({i \in 1..Len(s) : s[i] = x})

SameKey(a, level, zone_id) == a.level = level /\ a.zone_id = zone_id

Age(r) == clock - alerts[r].timestamp

panic_condition(rules, speed, variance) ==
    /\ speed < rules.panic_detection.speed_threshold
    /\ variance > rules.panic_detection.variance_threshold

orderly_condition(rules, speed, variance) ==
    /\ speed > rules.orderly_evacuation.speed_threshold
    /\ variance < rules.orderly_evacuation.variance_threshold

LevelIndex(level) == CHOOSE i \in 0..4 : level_order[i + 1] = level

StructurallyValid(document) ==
    /\ document # None
    /\ init_keys \subseteq DOMAIN document
    /\ LET t == document.classification_thresholds
       IN  /\ \A level \in Range(level_order) :
                 \E i \in 1..Len(t) : t[i].level = level
           /\ \A i \in 1..(Len(t) - 1) :
                 t[i].density_max = t[i + 1].density_min
    /\ DOMAIN document.severity_weights
         = {"density_weight", "speed_weight", "variance_weight"}

LevelPriority(level) ==
    CASE level = "warning"   -> 2
      [] level = "critical"  -> 3
      [] level = "emergency" -> 4

LevelRank(level) ==
    CASE level = "emergency" -> 1
      [] level = "critical"  -> 2
      [] level = "warning"   -> 3
      [] OTHER               -> 4

(***************************************************************************)
(* C1.  After a successful trigger_alert for an alertable (level, zone),   *)
(* which returned at the time the ledger holds, and with no reset_alerts   *)
(* since: a trigger_alert for the same level and zone returns None when    *)
(* fewer than cooldown_seconds have passed, and returns a new alert of     *)
(* that level and zone when at least cooldown_seconds have passed.         *)
(***************************************************************************)
CooldownGate ==
    [][(/\ op'.name = "trigger_alert"
        /\ op'.level \in Alertable
        /\ alert_key(op'.level, op'.zone_id) \in DOMAIN last_alert_time)
       => LET elapsed ==
                  clock - last_alert_time[alert_key(op'.level, op'.zone_id)]
          IN  /\ elapsed < cooldown_seconds => ret' = None
              /\ elapsed >= cooldown_seconds =>
                     /\ ret'.kind = "alert"
                     /\ SameKey(alerts'[ret'.ref], op'.level, op'.zone_id)
      ]_vars

RetriggerAfterCooldown ==
    /\ op.name = "trigger_alert"
    /\ ret.kind = "alert"
    /\ \E r \in Range(alert_history) :
          /\ r # ret.ref
          /\ SameKey(alerts[r], op.level, op.zone_id)
          /\ alerts[ret.ref].timestamp - alerts[r].timestamp
                 >= cooldown_seconds

RetriggerInCooldown ==
    /\ op.name = "trigger_alert"
    /\ op.level \in Alertable
    /\ ret = None
    /\ alert_key(op.level, op.zone_id) \in DOMAIN last_alert_time

(***************************************************************************)
(* C2.  Without reset_alerts, any two alerts of alert_history with the     *)
(* same level and the same zone_id have timestamps at least                *)
(* cooldown_seconds apart.                                                 *)
(***************************************************************************)
HistoryCooldownSpacing ==
    \A i, j \in 1..Len(alert_history) :
        (/\ i < j
         /\ alerts[alert_history[i]].level = alerts[alert_history[j]].level
         /\ alerts[alert_history[i]].zone_id =
                alerts[alert_history[j]].zone_id)
        => alerts[alert_history[j]].timestamp
               - alerts[alert_history[i]].timestamp >= cooldown_seconds

SameKeyTwiceWithDrift ==
    /\ Len(alert_history) = 2
    /\ alerts[alert_history[1]].alert_key = alerts[alert_history[2]].alert_key
    /\ alerts[alert_history[2]].timestamp
           < last_alert_time[alerts[alert_history[2]].alert_key]

(***************************************************************************)
(* C3.  trigger_alert with a level outside {warning, critical, emergency}  *)
(* returns None and leaves the ledger, the alert lists, the alert objects  *)
(* and the counters unchanged.                                             *)
(***************************************************************************)
NonAlertableRejected ==
    [][(op'.name = "trigger_alert" /\ op'.level \notin Alertable)
       => /\ ret' = None
          /\ UNCHANGED <<last_alert_time, alerts, active_alerts,
                         alert_history, total_alerts_triggered,
                         alerts_by_level>>
      ]_vars

ModerateRejectedOutsideCooldown ==
    /\ op.name = "trigger_alert"
    /\ op.level = "moderate"
    /\ ret = None
    /\ clock >= cooldown_seconds
    /\ alert_key("warning", op.zone_id) \in DOMAIN last_alert_time
    /\ \A k \in DOMAIN last_alert_time :
          clock - last_alert_time[k] >= cooldown_seconds

(***************************************************************************)
(* C4.  A successful trigger_alert creates one new alert object, appends   *)
(* its reference to the end of active_alerts and of alert_history, sets    *)
(* the ledger entry of the key to a clock read of the call, adds 1 to      *)
(* total_alerts_triggered and to alerts_by_level[level], and the alert     *)
(* carries the given level, zone and severity and the level's priority     *)
(* (warning 2, critical 3, emergency 4).                                   *)
(***************************************************************************)
SuccessfulTriggerEffect ==
    [][(op'.name = "trigger_alert" /\ ret'.kind = "alert")
       => LET r == ret'.ref
              key == alert_key(op'.level, op'.zone_id)
          IN  /\ DOMAIN alerts' = DOMAIN alerts \cup {r}
              /\ r \notin DOMAIN alerts
              /\ \A q \in DOMAIN alerts : alerts'[q] = alerts[q]
              /\ active_alerts' = Append(active_alerts, r)
              /\ alert_history' = Append(alert_history, r)
              /\ DOMAIN last_alert_time' = DOMAIN last_alert_time \cup {key}
              /\ last_alert_time'[key] \in clock..clock'
              /\ last_alert_time'[key] >= alerts'[r].timestamp
              /\ \A k \in DOMAIN last_alert_time \ {key} :
                    last_alert_time'[k] = last_alert_time[k]
              /\ total_alerts_triggered' = total_alerts_triggered + 1
              /\ DOMAIN alerts_by_level' =
                     DOMAIN alerts_by_level \cup {op'.level}
              /\ alerts_by_level'[op'.level] =
                     Get(alerts_by_level, op'.level, 0) + 1
              /\ \A l \in DOMAIN alerts_by_level \ {op'.level} :
                    alerts_by_level'[l] = alerts_by_level[l]
              /\ alerts'[r].level = op'.level
              /\ alerts'[r].zone_id = op'.zone_id
              /\ alerts'[r].severity = op'.severity
              /\ alerts'[r].priority = LevelPriority(op'.level)
              /\ alerts'[r].timestamp \in clock..clock'
      ]_vars

TriggerAppended ==
    /\ op.name = "trigger_alert"
    /\ ret.kind = "alert"
    /\ Len(alert_history) = 2
    /\ active_alerts = <<ret.ref>>
    /\ alerts[ret.ref].level = "emergency"
    /\ alerts[ret.ref].timestamp < last_alert_time[alerts[ret.ref].alert_key]

(***************************************************************************)
(* C5.  alert_history is append-only: in every step the history before is  *)
(* a prefix of the history after, and the alerts it refers to are          *)
(* unchanged.                                                              *)
(***************************************************************************)
HistoryAppendOnly ==
    [][/\ IsPrefix(alert_history, alert_history')
       /\ \A i \in 1..Len(alert_history) :
             alerts'[alert_history[i]] = alerts[alert_history[i]]
      ]_vars

HistoryKeptAcrossReset ==
    /\ op.name = "reset_alerts"
    /\ Len(alert_history) = 2
    /\ active_alerts = <<>>

(***************************************************************************)
(* C6.  An alert leaves active_alerts only in a clear_old_alerts step or   *)
(* a reset_alerts step.                                                    *)
(***************************************************************************)
LeavesOnlyByEviction ==
    [][(\E r \in Range(active_alerts) : r \notin Range(active_alerts'))
       => op'.name \in {"clear_old_alerts", "reset_alerts"}
      ]_vars

OldAlertStillActive ==
    /\ op.name = "get_active_alerts"
    /\ \E r \in Range(active_alerts) :
          /\ Age(r) > op.max_age
          /\ r \notin Range(ret.refs)

(***************************************************************************)
(* C7.  clear_old_alerts(max_age) at time t keeps in active_alerts exactly *)
(* the alerts with t - timestamp <= max_age, in their previous order, and  *)
(* leaves history, ledger, alert objects and counters unchanged; a         *)
(* trigger_alert for the key of an evicted alert is still rejected while   *)
(* the key is in cooldown.                                                 *)
(***************************************************************************)
ClearOldAlertsEffect ==
    [][/\ op'.name = "clear_old_alerts"
          => LET keep == {r \in Range(active_alerts) : Age(r) <= op'.max_age}
             IN  /\ Range(active_alerts') = keep
                 /\ Len(active_alerts') = Cardinality(keep)
                 /\ \A i, j \in 1..Len(active_alerts') :
                       i < j => Pos(active_alerts, active_alerts'[i])
                                    < Pos(active_alerts, active_alerts'[j])
                 /\ UNCHANGED <<alert_history, last_alert_time, alerts,
                                total_alerts_triggered, alerts_by_level>>
       /\ (/\ op'.name = "trigger_alert"
           /\ op'.level \in Alertable
           /\ \E r \in Range(alert_history) \ Range(active_alerts) :
                 /\ SameKey(alerts[r], op'.level, op'.zone_id)
                 /\ alert_key(op'.level, op'.zone_id)
                        \in DOMAIN last_alert_time
                 /\ clock - last_alert_time[alert_key(op'.level,
                                                      op'.zone_id)]
                        < cooldown_seconds)
          => ret' = None
      ]_vars

EvictedStillInCooldown ==
    /\ op.name = "clear_old_alerts"
    /\ active_alerts # <<>>
    /\ \E r \in Range(alert_history) \ Range(active_alerts) :
          /\ alerts[r].alert_key \in DOMAIN last_alert_time
          /\ clock - last_alert_time[alerts[r].alert_key] < cooldown_seconds

(***************************************************************************)
(* C8.  reset_alerts empties active_alerts and the ledger and leaves       *)
(* history, alert objects and counters unchanged; a trigger_alert made     *)
(* right after it for an alertable key that was triggered before the reset *)
(* succeeds, however recently that was.                                    *)
(***************************************************************************)
ResetEffect ==
    [][/\ op'.name = "reset_alerts"
          => /\ active_alerts' = <<>>
             /\ DOMAIN last_alert_time' = {}
             /\ UNCHANGED <<alert_history, alerts, total_alerts_triggered,
                            alerts_by_level>>
       /\ (/\ op.name = "reset_alerts"
           /\ op'.name = "trigger_alert"
           /\ op'.level \in Alertable
           /\ \E r \in Range(alert_history) :
                 SameKey(alerts[r], op'.level, op'.zone_id))
          => /\ ret'.kind = "alert"
             /\ SameKey(alerts'[ret'.ref], op'.level, op'.zone_id)
      ]_vars

RetriggerRightAfterReset ==
    /\ op.name = "trigger_alert"
    /\ ret.kind = "alert"
    /\ \E r \in Range(alert_history) :
          /\ r # ret.ref
          /\ SameKey(alerts[r], op.level, op.zone_id)
          /\ alerts[ret.ref].timestamp - alerts[r].timestamp
                 < cooldown_seconds

(***************************************************************************)
(* C9.  get_active_alerts(max_age) at time t returns exactly the alerts of *)
(* active_alerts with t - timestamp <= max_age, each once, by              *)
(* non-increasing priority, alerts of equal priority in their              *)
(* active_alerts order, and changes nothing in the manager.                *)
(***************************************************************************)
ActiveAlertsView ==
    [][op'.name = "get_active_alerts"
       => LET out == ret'.refs
              keep == {r \in Range(active_alerts) : Age(r) <= op'.max_age}
          IN  /\ ret'.kind = "refs"
              /\ Range(out) = keep
              /\ Len(out) = Cardinality(keep)
              /\ \A i, j \in 1..Len(out) :
                    i < j =>
                      /\ alerts[out[i]].priority >= alerts[out[j]].priority
                      /\ alerts[out[i]].priority = alerts[out[j]].priority
                           => Pos(active_alerts, out[i])
                                  < Pos(active_alerts, out[j])
              /\ UNCHANGED <<clock, manager>>
      ]_vars

ActiveAlertsReordered ==
    /\ op.name = "get_active_alerts"
    /\ Len(active_alerts) = 2
    /\ ret.refs = <<active_alerts[2], active_alerts[1]>>
    /\ Age(active_alerts[1]) = op.max_age

(***************************************************************************)
(* C10.  get_priority_alerts returns a permutation of its argument in      *)
(* which emergency alerts come before critical ones, critical before       *)
(* warning, every other level last, and alerts of one level are in order   *)
(* of non-increasing severity; the argument list is as it was.             *)
(***************************************************************************)
PriorityAlertsOrdered ==
    op.name = "get_priority_alerts"
    => LET in == op.alerts
           out == ret.dicts
       IN  /\ Len(out) = Len(in)
           /\ \A x \in Range(in) \cup Range(out) : Count(out, x) = Count(in, x)
           /\ \A i, j \in 1..Len(out) :
                 i < j =>
                   /\ LevelRank(out[i].level) <= LevelRank(out[j].level)
                   /\ out[i].level = out[j].level
                        => out[i].severity >= out[j].severity
           /\ op.alerts_after = in

PriorityAlertsReordered ==
    /\ op.name = "get_priority_alerts"
    /\ Len(op.alerts) >= 3
    /\ op.alerts[1].level = "safe"
    /\ op.alerts[2].level = "warning"
    /\ op.alerts[2].severity < op.alerts[3].severity
    /\ op.alerts[3].level = "warning"
    /\ ret.dicts # op.alerts

ReturnedAlertsAreCopies ==
    [][op'.name = "caller_sets_severity"
       => /\ Deref(active_alerts)' = Deref(active_alerts)
          /\ Deref(alert_history)' = Deref(alert_history)]_vars

(***************************************************************************)
(* C14.  With five bands that cover the levels contiguously from 0 upward, *)
(* _classify_by_density(d) returns for every d >= 0 the one level whose    *)
(* band has density_min <= d < density_max, and emergency for every d at   *)
(* or above the upper bound of the last band.                              *)
(***************************************************************************)
DensityBandOfLevel ==
    (op.name = "_classify_by_density" /\ op.density >= 0)
    => LET t == op.thresholds
           d == op.density
           holding == {i \in 1..5 : /\ t[i].density_min <= d
                                    /\ d < t[i].density_max}
       IN  /\ Cardinality(holding) <= 1
           /\ \A i \in holding : ret.level = t[i].level
           /\ d >= t[5].density_max => /\ holding = {}
                                       /\ ret.level = "emergency"
           /\ d < t[5].density_max => holding # {}

DensityOnBandEdge ==
    /\ op.name = "_classify_by_density"
    /\ op.density = op.thresholds[2].density_max
    /\ op.density = op.thresholds[3].density_min
    /\ ret.level = "warning"

(***************************************************************************)
(* C15.  With panic detection enabled and a positive elevation amount k,   *)
(* an input with speed below the panic speed threshold and variance above  *)
(* the panic variance threshold is resolved by classify_zone to the level  *)
(* of index min(i + k, 4), i the index of the base level; when that level  *)
(* differs from the base level the reason is the panic reason and          *)
(* elevated is true.                                                       *)
(***************************************************************************)
PanicElevates ==
    LET rules == op.classifier.config.elevation_rules
        result == ret.result
    IN  (/\ op.name = "classify_zone"
         /\ movement_supplied(op.speed, op.variance)
         /\ rules.panic_detection.enabled
         /\ rules.panic_detection.elevation_amount > 0
         /\ panic_condition(rules, op.speed.value, op.variance.value))
        => LET target ==
                   level_order[Min(LevelIndex(result.base_level)
                                     + rules.panic_detection.elevation_amount,
                                   4) + 1]
           IN  /\ result.level = target
               /\ target # result.base_level
                    => /\ result.elevation_reason = PanicReason
                       /\ result.elevated

ModerateElevatedToCritical ==
    /\ op.name = "classify_zone"
    /\ op.classifier.config.elevation_rules.panic_detection.elevation_amount
         = 2
    /\ ret.result.base_level = "moderate"
    /\ ret.result.level = "critical"
    /\ ret.result.elevated
    /\ ret.result.elevation_reason = PanicReason

(***************************************************************************)
(* C16.  In _adjust_by_movement, when the panic condition does not hold    *)
(* and orderly detection is enabled with speed above the orderly speed     *)
(* threshold and variance below the orderly variance threshold, the result *)
(* is the base level with the reason "Orderly evacuation detected"; when   *)
(* neither the panic nor the orderly condition holds, the result is the    *)
(* base level with no reason.                                              *)
(***************************************************************************)
OrderlyConfirms ==
    op.name = "_adjust_by_movement"
    => LET panic == panic_condition(op.rules, op.speed, op.variance)
           orderly == orderly_condition(op.rules, op.speed, op.variance)
       IN  /\ (~panic /\ op.rules.orderly_evacuation.enabled /\ orderly)
                => ret.adjusted = [level |-> op.base_level,
                                   reason |-> OrderlyReason]
           /\ (~panic /\ ~orderly)
                => ret.adjusted = [level |-> op.base_level,
                                   reason |-> None]

OrderlyWarningConfirmed ==
    /\ op.name = "_adjust_by_movement"
    /\ op.base_level = "warning"
    /\ op.rules.panic_detection.enabled
    /\ ~panic_condition(op.rules, op.speed, op.variance)
    /\ ret.adjusted = [level |-> "warning", reason |-> OrderlyReason]

(***************************************************************************)
(* C17.  The panic rule takes precedence over the orderly rule: with both  *)
(* rules enabled, an input that satisfies the panic condition is never     *)
(* answered with the reason "Orderly evacuation detected".                 *)
(***************************************************************************)
PanicBeforeOrderly ==
    (/\ op.name = "_adjust_by_movement"
     /\ op.rules.panic_detection.enabled
     /\ op.rules.orderly_evacuation.enabled
     /\ panic_condition(op.rules, op.speed, op.variance))
    => ret.adjusted.reason # OrderlyReason

EmergencyPanicAnsweredOrderly ==
    /\ op.name = "_adjust_by_movement"
    /\ op.base_level = "emergency"
    /\ op.rules.panic_detection.enabled
    /\ op.rules.panic_detection.elevation_amount > 0
    /\ op.rules.orderly_evacuation.enabled
    /\ panic_condition(op.rules, op.speed, op.variance)
    /\ ret.adjusted = [level |-> "emergency", reason |-> OrderlyReason]

(***************************************************************************)
(* C18.  When the density alone gives base level emergency and the panic   *)
(* condition holds, classify_zone returns level emergency with elevated    *)
(* false and requires_action of the emergency level.                       *)
(***************************************************************************)
EmergencyStaysEmergency ==
    LET config == op.classifier.config
        result == ret.result
    IN  (/\ op.name = "classify_zone"
         /\ movement_supplied(op.speed, op.variance)
         /\ result.base_level = "emergency"
         /\ panic_condition(config.elevation_rules, op.speed.value,
                            op.variance.value))
        => /\ result.level = "emergency"
           /\ ~result.elevated
           /\ result.requires_action =
                  level_info(config.classification_thresholds,
                             "emergency").requires_action

EmergencyWithPanic ==
    /\ op.name = "classify_zone"
    /\ movement_supplied(op.speed, op.variance)
    /\ op.density >= 0
    /\ op.density < op.classifier.config.classification_thresholds[5]
                        .density_max
    /\ ret.result.base_level = "emergency"
    /\ op.classifier.config.elevation_rules.panic_detection.enabled
    /\ op.classifier.config.elevation_rules.panic_detection.elevation_amount
         > 0
    /\ panic_condition(op.classifier.config.elevation_rules,
                       op.speed.value, op.variance.value)
    /\ ret.result.level = "emergency"
    /\ ~ret.result.elevated

(***************************************************************************)
(* C19.  Movement adjustment never lowers a level: with a non-negative     *)
(* elevation amount, the level of the record returned by classify_zone is  *)
(* at or above base_level in the order safe < moderate < warning <         *)
(* critical < emergency, and elevated is true exactly when it is strictly  *)
(* above.                                                                  *)
(***************************************************************************)
NeverLowered ==
    (/\ op.name = "classify_zone"
     /\ op.classifier.config.elevation_rules.panic_detection
             .elevation_amount >= 0)
    => /\ LevelIndex(ret.result.level) >= LevelIndex(ret.result.base_level)
       /\ ret.result.elevated
            <=> LevelIndex(ret.result.level)
                    > LevelIndex(ret.result.base_level)

SafeElevatedToWarning ==
    /\ op.name = "classify_zone"
    /\ ret.result.base_level = "safe"
    /\ ret.result.level = "warning"
    /\ ret.result.elevated

(***************************************************************************)
(* C20.  When speed is absent, variance is absent, or both are, the record *)
(* of classify_zone has level = base_level, elevated false, no elevation   *)
(* reason, and as severity score the density component                     *)
(* min(100, density / max_density * 100), to the two decimals the record   *)
(* keeps, whatever the supplied movement signal is.                        *)
(***************************************************************************)
NoAdjustmentWithoutMovement ==
    LET result == ret.result
        max_density == op.classifier.config.severity.absolute_max_density
    IN  (/\ op.name = "classify_zone"
         /\ op.speed = None \/ op.variance = None
         /\ op.density >= 0)
        => /\ result.level = result.base_level
           /\ ~result.elevated
           /\ result.elevation_reason = None
           /\ LET exact == 10000 * Min(op.density, max_density)
                   kept == result.severity_score * max_density
               IN  /\ 2 * (kept - exact) <= max_density
                   /\ 2 * (exact - kept) <= max_density

PanicSpeedWithoutVariance ==
    /\ op.name = "classify_zone"
    /\ op.speed # None
    /\ op.variance = None
    /\ op.classifier.config.elevation_rules.panic_detection.enabled
    /\ op.speed.value
         < op.classifier.config.elevation_rules.panic_detection
               .speed_threshold
    /\ op.density > 0
    /\ op.density < op.classifier.config.severity.absolute_max_density
    /\ ret.result.severity_score % 100 # 0

(***************************************************************************)
(* C21.  For every density d >= 0 with no movement data, the severity      *)
(* score lies in [0, 100], does not decrease when d increases while        *)
(* d <= max_density, and equals 100 for every d >= max_density.            *)
(***************************************************************************)
SeverityOfDensity ==
    (/\ op.name = "_calculate_severity_score"
     /\ ~movement_supplied(op.speed, op.variance)
     /\ op.density >= 0)
    => LET w == op.severity
           score == ret.score
       IN  /\ 0 <= score.num
           /\ score.num <= 100 * score.den
           /\ op.density >= w.absolute_max_density
                => score.num = 100 * score.den
           /\ \A d \in Densities :
                 (op.density <= d /\ d <= w.absolute_max_density)
                 => LET later == calculate_severity_score(w, d, op.speed,
                                                          op.variance)
                    IN  score.num * later.den <= later.num * score.den

SeverityBeyondMaxDensity ==
    /\ op.name = "_calculate_severity_score"
    /\ op.speed = None
    /\ op.variance = None
    /\ op.density > op.severity.absolute_max_density
    /\ ret.score.num = 100 * ret.score.den

(***************************************************************************)
(* C22.  Classifying an empty zone batch yields an empty record list, and  *)
(* get_classification_summary of that result completes without error and  *)
(* returns total 0, every per-level count 0, every per-level percentage 0, *)
(* mean severity 0 and zero requires-action and elevated counts.           *)
(***************************************************************************)
EmptyBatchSummary ==
    /\ (op.name = "classify_all_zones" /\ op.frame_data = <<>>)
         => ret.frame.rows = <<>>
    /\ (op.name = "get_classification_summary"
          /\ op.classified_zones.rows = <<>>)
         => /\ ret.kind = "summary"
            /\ ret.total_zones = 0
            /\ \A level \in Range(level_order) :
                  /\ ret.level_counts[level] = 0
                  /\ ret.level_percentages[level] = Float(0)
            /\ ret.average_severity = Float(0)
            /\ ret.zones_requiring_action = 0
            /\ ret.elevated_zones = 0

EmptyBatchSummaryRaises ==
    /\ op.name = "get_classification_summary"
    /\ op.classified_zones = [columns |-> {}, rows |-> <<>>]
    /\ ret = [kind |-> "raise", error |-> "KeyError", key |-> "severity"]

(***************************************************************************)
(* C23.  A zone record with a negative density is rejected: the frame      *)
(* classify_all_zones returns has no classification record of a negative   *)
(* density, and it has one for every zone of the batch whose density is    *)
(* not negative.                                                           *)
(***************************************************************************)
NegativeDensityRejected ==
    op.name = "classify_all_zones"
    => LET rows == ret.frame.rows
       IN  /\ \A i \in 1..Len(rows) : rows[i].density >= 0
           /\ Len(rows) = Cardinality({i \in 1..Len(op.frame_data) :
                                          op.frame_data[i].density >= 0})

NegativeDensityClassified ==
    /\ op.name = "classify_all_zones"
    /\ Len(ret.frame.rows) = 1
    /\ ret.frame.rows[1].density < 0
    /\ ret.frame.rows[1].level = "emergency"
    /\ ret.frame.rows[1].severity = 0

(***************************************************************************)
(* C24.  Constructing the classifier fails whenever the configuration is   *)
(* structurally invalid (one of the five levels missing from the threshold *)
(* table, density bands that are not contiguous, a severity weight         *)
(* missing): no classifier is constructed, nor then used, with such a      *)
(* configuration.                                                          *)
(***************************************************************************)
InvalidConfigurationFails ==
    /\ (op.name = "__init__" /\ ~StructurallyValid(op.document))
         => ret.kind = "raise"
    /\ (op.name = "_classify_by_density" /\ "classifier" \in DOMAIN op)
         => StructurallyValid(op.classifier.config)

GapClassifiedEmergency ==
    /\ op.name = "_classify_by_density"
    /\ "classifier" \in DOMAIN op
    /\ Len(op.thresholds) = 5
    /\ op.thresholds[1].density_max < op.thresholds[2].density_min
    /\ op.density = op.thresholds[1].density_max
    /\ ret.level = "emergency"

(***************************************************************************)
(* C25.  generate_audio_alert returns None exactly for alerts whose level  *)
(* has audio disabled (safe and moderate); every alert in active_alerts    *)
(* and alert_history has a level among warning, critical and emergency     *)
(* and yields an audio descriptor that is not None.                        *)
(***************************************************************************)
AudioExactlyForAlertable ==
    /\ \A alert \in PriorityDicts :
          audio_alert(alert) = None <=> alert.level \in {"safe", "moderate"}
    /\ \A r \in Range(active_alerts) \cup Range(alert_history) :
          /\ alerts[r].level \in Alertable
          /\ audio_alert(alerts[r]) # None
    /\ op.name = "generate_audio_alert"
         => /\ ret # None
            /\ ret.level = op.alert.level

AudioOfWarningAlert ==
    /\ op.name = "generate_audio_alert"
    /\ op.alert.level = "warning"
    /\ ret # None
    /\ ret.beeps = 1

(***************************************************************************)
(* C26.  Cooldown gating depends only on the pair (level, zone).  While    *)
(* the key of (L, Z) is within cooldown_seconds of its last successful     *)
(* trigger, a trigger for (L, Z) is rejected whatever its severity, and a  *)
(* trigger for another alertable level of the zone, or for the level in    *)
(* another zone, succeeds when its own key is not in cooldown.             *)
(***************************************************************************)
InCooldown(level, zone_id) ==
    LET key == level \o "_" \o zone_id
    IN  /\ key \in DOMAIN last_alert_time
        /\ clock - last_alert_time[key] < cooldown_seconds

CooldownPerKey ==
    [][(op'.name = "trigger_alert" /\ op'.level \in Alertable)
        => \A L \in Alertable, Z \in Zones :
             InCooldown(L, Z)
               => /\ (op'.level = L /\ op'.zone_id = Z) => ret' = None
                  /\ (/\ op'.level # L \/ op'.zone_id # Z
                      /\ ~InCooldown(op'.level, op'.zone_id))
                       => /\ ret' # None
                          /\ alerts'[ret'.ref].level = op'.level
                          /\ alerts'[ret'.ref].zone_id = op'.zone_id]_vars

OtherKeyTriggeredInCooldown ==
    /\ op.name = "trigger_alert"
    /\ ret # None
    /\ \E r \in Range(active_alerts) :
          /\ r # ret.ref
          /\ alerts[r].zone_id = op.zone_id
          /\ alerts[r].level # op.level
          /\ alerts[r].severity = op.severity
          /\ InCooldown(alerts[r].level, alerts[r].zone_id)

(***************************************************************************)
(* C27.  In every reachable state total_alerts_triggered equals the length *)
(* of alert_history and the sum of alerts_by_level over all levels, and    *)
(* alerts_by_level[L] equals the number of history entries of level L.     *)
(***************************************************************************)
HistoryOfLevel(level) ==
    {i \in 1..Len(alert_history) : alerts[alert_history[i]].level = level}

CountersMatchHistory ==
    /\ total_alerts_triggered = Len(alert_history)
    /\ total_alerts_triggered =
           Get(alerts_by_level, "safe", 0)
         + Get(alerts_by_level, "moderate", 0)
         + Get(alerts_by_level, "warning", 0)
         + Get(alerts_by_level, "critical", 0)
         + Get(alerts_by_level, "emergency", 0)
    /\ DOMAIN alerts_by_level \subseteq LevelSet
    /\ \A level \in LevelSet :
          Get(alerts_by_level, level, 0) = Cardinality(HistoryOfLevel(level))

CountersOutliveActiveList ==
    /\ op.name = "trigger_alert"
    /\ ret # None
    /\ active_alerts = <<ret.ref>>
    /\ total_alerts_triggered = 2
    /\ Get(alerts_by_level, op.level, 0) = 2

(***************************************************************************)
(* C28.  In every reachable state, states after reset_alerts included,     *)
(* active_alerts is a subsequence of alert_history, and any two alerts of  *)
(* active_alerts with the same level and the same zone_id have timestamps  *)
(* at least cooldown_seconds apart.                                        *)
(***************************************************************************)
IsSubsequence(s, t) ==
    \E f \in [1..Len(s) -> 1..Len(t)] :
        /\ \A i \in 1..Len(s) : s[i] = t[f[i]]
        /\ \A i, j \in 1..Len(s) : i < j => f[i] < f[j]

ActiveSpacedSubsequence ==
    /\ IsSubsequence(active_alerts, alert_history)
    /\ \A i, j \in 1..Len(active_alerts) :
          (/\ i < j
           /\ SameKey(alerts[active_alerts[i]],
                      alerts[active_alerts[j]].level,
                      alerts[active_alerts[j]].zone_id))
          => alerts[active_alerts[j]].timestamp
                 - alerts[active_alerts[i]].timestamp >= cooldown_seconds

CloseAlertsNeverActiveTogether ==
    /\ Len(alert_history) = 2
    /\ SameKey(alerts[alert_history[1]], alerts[alert_history[2]].level,
               alerts[alert_history[2]].zone_id)
    /\ alerts[alert_history[2]].timestamp
           - alerts[alert_history[1]].timestamp < cooldown_seconds
    /\ active_alerts = <<alert_history[2]>>

(***************************************************************************)
(* C29.  A trigger_alert for an alertable level whose (level, zone) key    *)
(* has no entry in the ledger always succeeds, at every clock value and    *)
(* for every cooldown_seconds.  A rejected call leaves the ledger as it    *)
(* was, so after a rejected call for an alertable level the key must have  *)
(* an entry.                                                               *)
(***************************************************************************)
MissingEntrySucceeds ==
    (/\ op.name = "trigger_alert"
     /\ op.level \in Alertable
     /\ ret = None)
    => alert_key(op.level, op.zone_id) \in DOMAIN last_alert_time

FirstTriggerRejected ==
    /\ op.name = "trigger_alert"
    /\ op.level \in Alertable
    /\ ret = None
    /\ DOMAIN last_alert_time = {}
    /\ alert_history = <<>>
    /\ clock < cooldown_seconds

(***************************************************************************)
(* C30.  A trigger_alert rejected by the cooldown gate returns None and    *)
(* changes nothing: the ledger entry of the key keeps the time of the last *)
(* successful trigger, and active_alerts, alert_history, the alert objects *)
(* and the counters are unchanged.                                         *)
(***************************************************************************)
RejectedChangesNothing ==
    [][(op'.name = "trigger_alert" /\ op'.level \in Alertable)
       => /\ InCooldown(op'.level, op'.zone_id)
             => /\ ret' = None
                /\ last_alert_time'[alert_key(op'.level, op'.zone_id)]
                       = last_alert_time[alert_key(op'.level, op'.zone_id)]
          /\ ret' = None
             => UNCHANGED <<clock, last_alert_time, alerts, active_alerts,
                            alert_history, total_alerts_triggered,
                            alerts_by_level>>
      ]_vars

RejectedLedgerKept ==
    /\ op.name = "trigger_alert"
    /\ op.level \in Alertable
    /\ ret = None
    /\ InCooldown(op.level, op.zone_id)
    /\ last_alert_time[alert_key(op.level, op.zone_id)] < clock
    /\ \E r \in Range(active_alerts) :
          /\ SameKey(alerts[r], op.level, op.zone_id)
          /\ alerts[r].severity # op.severity

====
